---- MODULE Spec2Model ----
(***************************************************************************)
(* Model of items_verification_app.py: the equipment verification form     *)
(* over a people x items table kept in a Google Sheet (remote backend)     *)
(* or an Excel file (local backend), with a one-time backup copy.          *)
(*                                                                         *)
(* Strings of the source are transliterated to ASCII:                      *)
(*   column 'shem' = name, 'tzevet' = team, 'ta_ihsun' = storage cell,     *)
(*   'hearot' = notes, 'zikui' = credit; the donation marker is "T";       *)
(*   the radio options are "ein" (none), "yesh" (has), "truma" (donated).  *)
(***************************************************************************)
EXTENDS Integers, Sequences, FiniteSets, TLC

Range(s) == {s[i] : i \in DOMAIN s}

(***************************************************************************)
(* Python values found in cells: a tag and the text str() gives.           *)
(***************************************************************************)
NaN == [t |-> "nan", s |-> "nan"]
PyNone == [t |-> "none", s |-> "None"]
StrV(x) == [t |-> "str", s |-> x]
IntV(x) == [t |-> "int", s |-> x]
FloatV(x) == [t |-> "float", s |-> x]
Blank == [t |-> "blank", s |-> ""]

Marker == "T"

\* pd.isna(val)
isna(v) == v.t \in {"nan", "none"}

\* str(val)
PyStr(v) == v.s

IsNum(v) == v.t \in {"int", "float"}

\* the number a numeric value denotes, in tenths
NumVal(v) ==
    CASE v.s \in {"0", "0.0"} -> 0
      [] v.s \in {"1", "1.0"} -> 10
      [] v.s \in {"2", "2.0"} -> 20
      [] v.s = "2.5" -> 25
      [] OTHER -> 990

\* Python's == between two cell values
PyEq(v, w) ==
    IF IsNum(v) /\ IsNum(w) THEN NumVal(v) = NumVal(w)
    ELSE IF v.t = "str" /\ w.t = "str" THEN v.s = w.s
    ELSE IF v.t = "none" /\ w.t = "none" THEN TRUE
    ELSE FALSE

(***************************************************************************)
(* Configuration of the source.                                            *)
(***************************************************************************)
NameCol == "shem"
TeamCol == "tzevet"
CellCol == "ta_ihsun"
NotesCol == "hearot"

METADATA_COLS == {CellCol, TeamCol, NameCol, "Unnamed: 26", "zikui"}

STATUS_OPTIONS == <<"ein", "yesh", "truma">>

\* the donated option mapped to its label, not to the marker
STATUS_MAP_Label(option) ==
    CASE option = "ein" -> PyNone
      [] option = "yesh" -> IntV("1")
      [] option = "truma" -> StrV("truma")

STATUS_MAP(option) ==
    CASE option = "ein" -> PyNone
      [] option = "yesh" -> IntV("1")
      [] option = "truma" -> StrV(Marker)

\* REVERSE_STATUS_MAP.get(status, "ein")
REVERSE_STATUS_MAP(status) ==
    IF status.t = "none" THEN "ein"
    ELSE IF IsNum(status) /\ NumVal(status) = 10 THEN "yesh"
    ELSE IF status = StrV("1") THEN "yesh"
    ELSE IF status = StrV(Marker) THEN "truma"
    ELSE "ein"

(***************************************************************************)
(* Tables (DataFrames, worksheets, workbook files): the ordered columns    *)
(* and the ordered rows, each row a function from column to value.         *)
(***************************************************************************)
Table(cols, rows) == [cols |-> cols, rows |-> rows]

EmptyTable == Table(<<>>, <<>>)

HasCol(df, col) == col \in Range(df.cols)

\* row.get(col): the cell, or None when the row has no such column
RowGet(row, col) == IF col \in DOMAIN row THEN row[col] ELSE PyNone

\* [col for col in df.columns if col not in METADATA_COLS]
get_all_items(df) == SelectSeq(df.cols, LAMBDA col : col \notin METADATA_COLS)

\* df[df['shem'] == name]
RowsNamed(df, name) == SelectSeq(df.rows, LAMBDA r : PyEq(r[NameCol], name))

\* the index of the first row df['shem'] == name selects (0 when none does)
FirstIdx(df, name) ==
    IF \E i \in DOMAIN df.rows : PyEq(df.rows[i][NameCol], name)
    THEN CHOOSE i \in DOMAIN df.rows :
            /\ PyEq(df.rows[i][NameCol], name)
            /\ \A j \in 1..(i - 1) : ~PyEq(df.rows[j][NameCol], name)
    ELSE 0

\* the reading that compares numbers only, and misses the text "1"
CellStatusNumbersOnly(val) ==
    IF isna(val) \/ PyEq(val, StrV("")) \/ PyEq(val, IntV("0")) THEN PyNone
    ELSE IF PyEq(val, IntV("1")) \/ PyEq(val, FloatV("1.0")) THEN IntV("1")
    ELSE IF PyStr(val) = Marker THEN StrV(Marker)
    ELSE PyNone

\* the three-way reading of a raw cell value
CellStatus(val) ==
    IF isna(val) \/ PyEq(val, StrV("")) \/ PyEq(val, IntV("0")) THEN PyNone
    ELSE IF PyEq(val, IntV("1")) \/ PyEq(val, FloatV("1.0")) \/ PyStr(val) = "1"
         THEN IntV("1")
    ELSE IF PyStr(val) = Marker THEN StrV(Marker)
    ELSE PyNone

get_person_item_status(df, name, item) ==
    IF RowsNamed(df, name) = <<>> THEN PyNone
    ELSE CellStatus(RowsNamed(df, name)[1][item])

(***************************************************************************)
(* What the two backends hold and how values change on the way in and out. *)
(* A stored cell is Blank, a number or a text.                             *)
(***************************************************************************)
MapCells(t, F(_)) ==
    Table(t.cols, [i \in DOMAIN t.rows |->
                      [c \in DOMAIN t.rows[i] |-> F(t.rows[i][c])]])

\* a whole number written as a float is stored as that whole number
WholeNumber(v) ==
    IF v.t = "float" /\ v.s \in {"0.0", "1.0", "2.0"}
    THEN IntV(CASE v.s = "0.0" -> "0" [] v.s = "1.0" -> "1" [] OTHER -> "2")
    ELSE v

\* the text a sheet cell displays
Displayed(c) == WholeNumber(c).s

\* gspread's numericise of a cell's displayed text
Numericise(c) ==
    IF Displayed(c) \in {"0", "1", "2"} THEN IntV(Displayed(c))
    ELSE IF Displayed(c) \in {"0.0", "1.0", "2.0", "2.5"} THEN FloatV(Displayed(c))
    ELSE StrV(Displayed(c))

\* worksheet.get_all_records(): blank cells come back as ''
LoadRemoteCell(c) == IF c = Blank THEN StrV("") ELSE Numericise(c)

\* pd.DataFrame(worksheet.get_all_records()): no data rows give no columns
LoadRemote(sh) ==
    IF sh.rows = <<>> THEN EmptyTable ELSE MapCells(sh, LoadRemoteCell)

\* a column pandas reads as float64: only numbers, and a blank among them
FloatColumn(f, col) ==
    /\ \E i \in DOMAIN f.rows : f.rows[i][col] = Blank
    /\ \A i \in DOMAIN f.rows : f.rows[i][col] = Blank \/ IsNum(f.rows[i][col])

IntToFloat(v) ==
    IF v.t = "int" THEN FloatV(CASE v.s = "0" -> "0.0" [] v.s = "1" -> "1.0"
                                 [] v.s = "2" -> "2.0" [] OTHER -> v.s)
    ELSE v

\* pd.read_excel(DATA_FILE): blank cells come back as NaN
LoadLocal(f) ==
    Table(f.cols, [i \in DOMAIN f.rows |->
        [c \in DOMAIN f.rows[i] |->
            IF f.rows[i][c] = Blank THEN NaN
            ELSE IF FloatColumn(f, c) THEN IntToFloat(f.rows[i][c])
            ELSE f.rows[i][c]]])

\* one value of df.fillna("").values.tolist() as the sheet stores it
StoreRemoteCell(v) ==
    IF isna(v) \/ v = StrV("") \/ v = Blank THEN Blank ELSE WholeNumber(v)

\* main_sheet.update('A1', [header] + df.fillna("").values.tolist())
StoreRemote(df) == MapCells(df, StoreRemoteCell)

\* one value as df.to_excel writes it
StoreLocalCell(v) ==
    IF isna(v) \/ v = StrV("") \/ v = Blank THEN Blank ELSE WholeNumber(v)

\* df.to_excel(DATA_FILE, index=False)
StoreLocal(df) == MapCells(df, StoreLocalCell)

\* backup_sheet.update('A1', original_sheet.get_all_values()): the displayed
\* texts of the main sheet, written as texts
BackupCopyCell(c) == IF c = Blank THEN Blank ELSE StrV(Displayed(c))

BackupCopy(sh) == MapCells(sh, BackupCopyCell)

NoArtifact == [exists |-> FALSE, data |-> EmptyTable]

Artifact(t) == [exists |-> TRUE, data |-> t]

(***************************************************************************)
(* The Table Store.  A store st is the main worksheet, the backup          *)
(* worksheet, the workbook file and the backup file.  A fault names the    *)
(* call of the remote service, or of the file system, that raises.         *)
(***************************************************************************)
RemoteFaults == {"none", "open", "backup_list", "backup_copy", "clear", "update"}

LocalFaults == {"none", "write"}

\* load_data(): ok, the DataFrame, and the backend it came from
load_data(st, credentials, remoteFails) ==
    IF credentials /\ ~remoteFails
    THEN [ok |-> TRUE, df |-> LoadRemote(st.sheet), gs |-> TRUE]
    ELSE IF st.file.exists
    THEN [ok |-> TRUE, df |-> LoadLocal(st.file.data), gs |-> FALSE]
    ELSE [ok |-> FALSE, df |-> EmptyTable, gs |-> FALSE]

\* load_backup_data(): the backup worksheet first, then the backup file
load_backup_data(st, credentials, remoteFails) ==
    IF credentials /\ ~remoteFails /\ st.backupSheet.exists
    THEN [ok |-> TRUE, df |-> LoadRemote(st.backupSheet.data)]
    ELSE IF st.backupFile.exists
    THEN [ok |-> TRUE, df |-> LoadLocal(st.backupFile.data)]
    ELSE [ok |-> FALSE, df |-> EmptyTable]

\* a backup taken on every save
ensure_backup_always(st, fault) ==
    IF fault = "backup_list" THEN st
    ELSE IF fault = "backup_copy"
    THEN [st EXCEPT !.backupSheet = Artifact(EmptyTable)]
    ELSE [st EXCEPT !.backupSheet = Artifact(BackupCopy(st.sheet))]

ensure_backup_exists(st, fault) ==
    IF fault = "backup_list" \/ st.backupSheet.exists THEN st
    ELSE IF fault = "backup_copy"
    THEN [st EXCEPT !.backupSheet = Artifact(EmptyTable)]
    ELSE [st EXCEPT !.backupSheet = Artifact(BackupCopy(st.sheet))]

\* df.at[idx, item] = status if status is not None else ""
WrittenStatus(status) == IF status = PyNone THEN StrV("") ELSE status

\* the DataFrame save_verification persists: the row of the first match
\* takes the statuses, and the notes when there are any
UpdatedDf(df, name, item_statuses, notes) ==
    LET idx == FirstIdx(df, name)
        row1 == [c \in DOMAIN df.rows[idx] |->
                    IF c \in DOMAIN item_statuses
                    THEN WrittenStatus(item_statuses[c])
                    ELSE df.rows[idx][c]]
        rows1 == [df.rows EXCEPT ![idx] = row1]
        cols2 == IF HasCol(df, NotesCol) THEN df.cols ELSE Append(df.cols, NotesCol)
        rows2 == [i \in DOMAIN rows1 |->
                    [c \in Range(cols2) |->
                        IF i = idx /\ c = NotesCol THEN StrV(notes)
                        ELSE IF c \in DOMAIN rows1[i] THEN rows1[i][c]
                        ELSE StrV("")]]
    IN  IF notes = "" THEN Table(df.cols, rows1) ELSE Table(cols2, rows2)

\* a fallback that copies the workbook after it has written it
SaveLocalBackupAfter(st, df, localFault) ==
    IF ~st.backupFile.exists /\ ~st.file.exists
    THEN [st |-> st, result |-> "raised"]
    ELSE IF localFault = "write" THEN [st |-> st, result |-> "raised"]
    ELSE LET st1 == [st EXCEPT !.file = Artifact(StoreLocal(df))]
         IN  [st |-> IF st.backupFile.exists THEN st1
                     ELSE [st1 EXCEPT !.backupFile = Artifact(st1.file.data)],
              result |-> "DATA_FILE"]

\* the fallback of save_verification: the workbook file, backed up once
SaveLocal(st, df, localFault) ==
    IF ~st.backupFile.exists /\ ~st.file.exists
    THEN [st |-> st, result |-> "raised"]
    ELSE LET st1 == IF st.backupFile.exists THEN st
                    ELSE [st EXCEPT !.backupFile = Artifact(st.file.data)]
         IN  IF localFault = "write"
             THEN [st |-> st1, result |-> "raised"]
             ELSE [st |-> [st1 EXCEPT !.file = Artifact(StoreLocal(df))],
                   result |-> "DATA_FILE"]

\* a remote branch that reports the write and leaves the sheet as it found it
SaveRemoteKeepsSheet(st, df, fault) ==
    IF fault = "open" THEN [st |-> st, done |-> FALSE]
    ELSE [st |-> ensure_backup_exists(st, fault), done |-> fault \notin {"clear", "update"}]

\* the remote branch of save_verification; done is FALSE when it raised
SaveRemote(st, df, fault) ==
    IF fault = "open" THEN [st |-> st, done |-> FALSE]
    ELSE LET st1 == ensure_backup_exists(st, fault)
         IN  CASE fault = "clear" -> [st |-> st1, done |-> FALSE]
               [] fault = "update" ->
                    [st |-> [st1 EXCEPT !.sheet = EmptyTable], done |-> FALSE]
               [] OTHER ->
                    [st |-> [st1 EXCEPT !.sheet = StoreRemote(df)], done |-> TRUE]

\* a lookup that comes after the backup step
NotFoundAfterBackup(st) ==
    [st |-> [ensure_backup_exists(st, "none") EXCEPT !.backupFile = Artifact(st.file.data)],
     result |-> "None"]

\* return None: no row carries the name
NotFound(st) == [st |-> st, result |-> "None"]

save_verification(st, ss, df, name, item_statuses, notes, fault, localFault) ==
    IF RowsNamed(df, name) = <<>> THEN NotFound(st)
    ELSE LET df2 == UpdatedDf(df, name, item_statuses, notes)
             remote == IF ss.use_google_sheets /\ ss.gs_client
                       THEN SaveRemote(st, df2, fault)
                       ELSE [st |-> st, done |-> FALSE]
         IN  IF remote.done THEN [st |-> remote.st, result |-> "main_sheet"]
             ELSE SaveLocal(remote.st, df2, localFault)

\* save_df_to_sheet(df): TRUE when the write completed
save_df_to_sheet(st, ss, df, fault, localFault) ==
    IF ss.use_google_sheets /\ ss.gs_client
    THEN CASE fault \in {"open", "clear"} -> [st |-> st, result |-> FALSE]
           [] fault = "update" ->
                [st |-> [st EXCEPT !.sheet = EmptyTable], result |-> FALSE]
           [] OTHER ->
                [st |-> [st EXCEPT !.sheet = StoreRemote(df)], result |-> TRUE]
    ELSE IF localFault = "write" THEN [st |-> st, result |-> FALSE]
    ELSE [st |-> [st EXCEPT !.file = Artifact(StoreLocal(df))], result |-> TRUE]

(***************************************************************************)
(* Bounds of the model and the tables it starts from.                      *)
(***************************************************************************)
MaxWrites == 1

Row(name, team, cell, helmet, vest) ==
    [c \in {NameCol, TeamCol, CellCol, "helmet", "vest"} |->
        CASE c = NameCol -> name [] c = TeamCol -> team [] c = CellCol -> cell
          [] c = "helmet" -> helmet [] OTHER -> vest]

\* the stored table the runs start from: dana holds a helmet, omer has
\* donated one and has a vest cell nobody can read, and dana is there twice
InitialTable ==
    Table(<<NameCol, TeamCol, CellCol, "helmet", "vest">>,
          << Row(StrV("dana"), StrV("a"), IntV("1"), IntV("1"), Blank),
             Row(StrV("omer"), StrV("a"), IntV("2"), StrV(Marker), StrV("x")),
             Row(StrV("dana"), StrV("b"), Blank, Blank, IntV("1")) >>)

\* every column a table of the model can have that is not metadata
ItemKeys == (Range(InitialTable.cols) \cup {NotesCol}) \ METADATA_COLS

NotesInputs == {"", "n1"}

NewNames == {"", "dana", "Dana"}

VARIABLES
    store,        \* sheet, backupSheet, file, backupFile
    credentials,  \* a service account is configured
    ss,           \* st.session_state
    selectbox,    \* the value of the name selectbox
    run,          \* what the last script run computed
    writes,       \* the operations so far that wrote, or tried to
    original,     \* the store before any write
    pIn, pOut     \* argument and result of a function applied on its own

vars == <<store, credentials, ss, selectbox, run, writes, original, pIn, pOut>>

NoRun ==
    [kind |-> "none", status |-> "none", df |-> EmptyTable, name |-> StrV(""),
     item_statuses |-> <<>>, missing_required |-> <<>>, args |-> <<>>,
     result |-> "none"]

InitSession ==
    [use_google_sheets |-> FALSE, gs_client |-> FALSE, selected_name |-> PyNone,
     initialized |-> FALSE, items |-> [k \in ItemKeys |-> "unset"]]

RemoteSession == [InitSession EXCEPT !.use_google_sheets = TRUE, !.gs_client = TRUE]

FreshStores ==
    { [sheet |-> InitialTable, backupSheet |-> NoArtifact,
       file |-> f, backupFile |-> NoArtifact] : f \in {NoArtifact, Artifact(InitialTable)} }

\* the store an earlier session left behind: dana reported the helmet
\* missing and wrote a note, which made the backup and the notes column
EarlierSave(st, creds) ==
    save_verification(st, IF creds THEN RemoteSession ELSE InitSession,
                      IF creds THEN LoadRemote(st.sheet) ELSE LoadLocal(st.file.data),
                      StrV("dana"),
                      [item \in {"helmet", "vest"} |-> PyNone], "n0", "none", "none").st

Init ==
    /\ credentials \in BOOLEAN
    /\ original \in FreshStores
    /\ credentials \/ original.file.exists
    /\ store \in {original, EarlierSave(original, credentials)}
    /\ ss = InitSession
    /\ selectbox = StrV("")
    /\ run = NoRun
    /\ writes = 0
    /\ pIn = <<>>
    /\ pOut = <<>>

(***************************************************************************)
(* One run of the script: main() from load_data to the item loop.          *)
(***************************************************************************)
\* df['shem'].dropna().unique()
Names(df) == {df.rows[i][NameCol] : i \in {j \in DOMAIN df.rows : ~isna(df.rows[j][NameCol])}}

\* the item was registered and the radio now says none
RegressedForgetsDonated(original_status, selected) ==
    original_status = IntV("1") /\ selected = "ein"

Regressed(original_status, selected) ==
    original_status # PyNone /\ selected = "ein"

\* an item loop that keeps the radios of the person selected before
ItemLoopKeepsEdits(ss0, df, name) ==
    LET all_items == get_all_items(df)
        original_status(item) == get_person_item_status(df, name, item)
        selected(item) == IF ss0.items[item] # "unset" THEN ss0.items[item]
                          ELSE REVERSE_STATUS_MAP(original_status(item))
    IN  [ss |-> [ss0 EXCEPT !.selected_name = name, !.initialized = TRUE,
                            !.items = [k \in ItemKeys |->
                                          IF k \in Range(all_items) THEN selected(k)
                                          ELSE "unset"]],
         item_statuses |-> [item \in Range(all_items) |-> STATUS_MAP(selected(item))],
         missing_required |->
             SelectSeq(all_items, LAMBDA item :
                 Regressed(original_status(item), selected(item)))]

\* the loop over all_items, with the session's item_<item> widget values:
\* a radio shows its session value, or the stored state when it has none
\* (a change of name deletes the session values first)
ItemLoop(ss0, df, name) ==
    LET all_items == get_all_items(df)
        changed == ss0.selected_name # name
        items0 == IF changed
                  THEN [k \in ItemKeys |-> IF k \in Range(all_items) THEN "unset"
                                           ELSE ss0.items[k]]
                  ELSE ss0.items
        original_status(item) == get_person_item_status(df, name, item)
        selected(item) == IF items0[item] # "unset" THEN items0[item]
                          ELSE REVERSE_STATUS_MAP(original_status(item))
    IN  [ss |-> [ss0 EXCEPT !.selected_name = name, !.initialized = TRUE,
                            !.items = [k \in ItemKeys |->
                                          IF k \in Range(all_items) THEN selected(k)
                                          ELSE "unset"]],
         item_statuses |-> [item \in Range(all_items) |-> STATUS_MAP(selected(item))],
         missing_required |->
             SelectSeq(all_items, LAMBDA item :
                 Regressed(original_status(item), selected(item)))]

\* widgets a run does not render lose their session values
NoItems(ss0) == [ss0 EXCEPT !.items = [k \in ItemKeys |-> "unset"]]

\* the run up to the buttons, for the selectbox value sel
Script(st, ss0, sel, remoteFails) ==
    LET ld == load_data(st, credentials, remoteFails)
        ss1 == IF ld.ok
               THEN [ss0 EXCEPT !.use_google_sheets = ld.gs,
                                !.gs_client = ss0.gs_client \/ ld.gs]
               ELSE ss0
        shown == IF HasCol(ld.df, NameCol) /\ sel \in Names(ld.df) THEN sel
                 ELSE StrV("")
    IN  IF ~ld.ok
        THEN [status |-> "load_failed", ss |-> NoItems(ss1), selectbox |-> StrV(""),
              df |-> ld.df, item_statuses |-> <<>>, missing_required |-> <<>>]
        ELSE IF ~HasCol(ld.df, NameCol)
        THEN [status |-> "raised", ss |-> NoItems(ss1), selectbox |-> StrV(""),
              df |-> ld.df, item_statuses |-> <<>>, missing_required |-> <<>>]
        ELSE IF shown = StrV("")
        THEN [status |-> "ok", ss |-> NoItems(ss1), selectbox |-> shown,
              df |-> ld.df, item_statuses |-> <<>>, missing_required |-> <<>>]
        ELSE LET loop == ItemLoop(ss1, ld.df, shown)
             IN  [status |-> "ok", ss |-> loop.ss, selectbox |-> shown,
                  df |-> ld.df, item_statuses |-> loop.item_statuses,
                  missing_required |-> loop.missing_required]

(***************************************************************************)
(* The environment of one click: whether the remote load raises, which     *)
(* remote call of the write raises, and whether the file write raises.     *)
(* With credentials the remote load is taken to succeed; a rerun that ends *)
(* the click meets the same remote service as its load.                    *)
(***************************************************************************)
Env(load, fault, local) == [load |-> load, fault |-> fault, local |-> local]

LoadFaults == {FALSE}

SaveEnvs ==
    IF credentials
    THEN {Env(FALSE, f, "none") : f \in RemoteFaults}
         \cup {Env(FALSE, f, "write") : f \in {"open", "update"}}
    ELSE {Env(FALSE, "none", l) : l \in LocalFaults}

AdminEnvs ==
    IF credentials
    THEN {Env(FALSE, f, "none") : f \in {"none", "open", "update"}}
    ELSE {Env(FALSE, "none", l) : l \in LocalFaults}

RunRecord(kind, r, args, result) ==
    [kind |-> kind, status |-> r.status, df |-> r.df, name |-> r.selectbox,
     item_statuses |-> r.item_statuses, missing_required |-> r.missing_required,
     args |-> args, result |-> result]

UnchangedPure == UNCHANGED <<credentials, original, pIn, pOut>>

\* the user picks a name (or the empty entry) in the selectbox
SelectPerson(p, remoteFails) ==
    /\ p # selectbox
    /\ LET r == Script(store, ss, p, remoteFails)
       IN  /\ ss' = r.ss
           /\ selectbox' = r.selectbox
           /\ run' = RunRecord("view", r, <<>>, "none")
    /\ UNCHANGED <<store, writes>>
    /\ UnchangedPure

\* the user changes the radio of one item
SetItem(item, option, remoteFails) ==
    /\ ss.items[item] \notin {"unset", option}
    /\ LET r == Script(store, [ss EXCEPT !.items[item] = option], selectbox, remoteFails)
       IN  /\ ss' = r.ss
           /\ selectbox' = r.selectbox
           /\ run' = RunRecord("view", r, <<>>, "none")
    /\ UNCHANGED <<store, writes>>
    /\ UnchangedPure

\* the user clicks the verify-and-save button
ClickSave(notes, env) ==
    /\ selectbox # StrV("")
    /\ writes < MaxWrites
    /\ LET r == Script(store, ss, selectbox, env.load)
           sv == save_verification(store, r.ss, r.df, r.selectbox,
                                   r.item_statuses, notes, env.fault, env.local)
       IN  /\ r.status = "ok"
           /\ r.selectbox # StrV("")
           /\ ss' = r.ss
           /\ selectbox' = r.selectbox
           /\ store' = sv.st
           /\ run' = RunRecord("save", r, <<notes>>, sv.result)
           /\ writes' = writes + 1
    /\ UnchangedPure

\* the user clicks the reset button: the run ends in st.rerun()
ClickReset(remoteFails) ==
    /\ selectbox # StrV("")
    /\ LET r == Script(store, ss, selectbox, remoteFails)
           ss2 == [r.ss EXCEPT !.initialized = FALSE, !.selected_name = PyNone]
           r2 == Script(store, ss2, r.selectbox, remoteFails)
       IN  /\ r.status = "ok"
           /\ r.selectbox # StrV("")
           /\ ss' = r2.ss
           /\ selectbox' = r2.selectbox
           /\ run' = RunRecord("reset", r2, <<>>, "none")
    /\ UNCHANGED <<store, writes>>
    /\ UnchangedPure

(***************************************************************************)
(* User management: admin_manage_users.                                    *)
(***************************************************************************)
\* pd.concat([df, pd.DataFrame([new_row])], ignore_index=True)
ConcatRow(df, new_name, new_team, new_cell) ==
    LET extra == SelectSeq(<<NameCol, TeamCol, CellCol>>, LAMBDA c : ~HasCol(df, c))
        cols2 == df.cols \o extra
        new_row == [c \in Range(cols2) |->
                       CASE c = NameCol -> StrV(new_name)
                         [] c = TeamCol -> StrV(new_team)
                         [] c = CellCol -> StrV(new_cell)
                         [] OTHER -> StrV("")]
        old_rows == [i \in DOMAIN df.rows |->
                        [c \in Range(cols2) |->
                            IF c \in DOMAIN df.rows[i] THEN df.rows[i][c] ELSE NaN]]
    IN  Table(cols2, Append(old_rows, new_row))

\* the name looked up in the team column
NameTakenWrongColumn(df, new_name) ==
    \E i \in DOMAIN df.rows : PyEq(df.rows[i][TeamCol], StrV(new_name))

\* new_name in df['shem'].values
NameTaken(df, new_name) ==
    \E i \in DOMAIN df.rows : PyEq(df.rows[i][NameCol], StrV(new_name))

\* the add-user button
add_user(st, ss0, df, new_name, new_team, new_cell, fault, localFault) ==
    IF new_name = "" THEN [st |-> st, result |-> "error_empty"]
    ELSE IF NameTaken(df, new_name)
    THEN [st |-> st, result |-> "error_exists"]
    ELSE LET sv == save_df_to_sheet(st, ss0, ConcatRow(df, new_name, new_team, new_cell),
                                    fault, localFault)
         IN  [st |-> sv.st, result |-> IF sv.result THEN "added" ELSE "save_failed"]

\* the remove-user button: df[df['shem'] != remove_name]
remove_user(st, ss0, df, remove_name, fault, localFault) ==
    LET df2 == Table(df.cols, SelectSeq(df.rows, LAMBDA r : ~PyEq(r[NameCol], remove_name)))
        sv == save_df_to_sheet(st, ss0, df2, fault, localFault)
    IN  [st |-> sv.st, result |-> IF sv.result THEN "removed" ELSE "save_failed"]

\* the save-changes button of the edit form
edit_user(st, ss0, df, edit_name, edit_team, edit_cell, fault, localFault) ==
    LET idx == FirstIdx(df, edit_name)
        df2 == Table(df.cols, [df.rows EXCEPT ![idx] =
                   [c \in DOMAIN df.rows[idx] |->
                       CASE c = TeamCol -> StrV(edit_team)
                         [] c = CellCol -> StrV(edit_cell)
                         [] OTHER -> df.rows[idx][c]]])
        sv == save_df_to_sheet(st, ss0, df2, fault, localFault)
    IN  [st |-> sv.st, result |-> IF sv.result THEN "edited" ELSE "save_failed"]

\* a run in which an admin button was clicked: op is what the button did to
\* the store; a completed write ends in st.rerun()
AdminRun(kind, r, op, args, env) ==
    LET again == Script(op.st, r.ss, r.selectbox, env.load)
        done == op.result \in {"added", "removed", "edited"}
    IN  /\ store' = op.st
        /\ ss' = IF done THEN again.ss ELSE r.ss
        /\ selectbox' = IF done THEN again.selectbox ELSE r.selectbox
        /\ run' = RunRecord(kind, r, args, op.result)
        /\ writes' = IF op.result \in {"error_empty", "error_exists"} THEN writes
                     ELSE writes + 1

AddUser(new_name, new_team, new_cell, env) ==
    /\ writes < MaxWrites
    /\ LET r == Script(store, ss, selectbox, env.load)
       IN  /\ r.status = "ok"
           /\ AdminRun("add", r,
                       add_user(store, r.ss, r.df, new_name, new_team, new_cell,
                                env.fault, env.local),
                       <<new_name, new_team, new_cell>>, env)
    /\ UnchangedPure

RemoveUser(remove_name, env) ==
    /\ writes < MaxWrites
    /\ remove_name # ""
    /\ LET r == Script(store, ss, selectbox, env.load)
       IN  /\ r.status = "ok"
           /\ StrV(remove_name) \in Names(r.df)
           /\ AdminRun("remove", r,
                       remove_user(store, r.ss, r.df, StrV(remove_name),
                                   env.fault, env.local),
                       <<remove_name>>, env)
    /\ UnchangedPure

EditUser(edit_name, edit_team, edit_cell, env) ==
    /\ writes < MaxWrites
    /\ edit_name # ""
    /\ LET r == Script(store, ss, selectbox, env.load)
       IN  /\ r.status = "ok"
           /\ StrV(edit_name) \in Names(r.df)
           /\ AdminRun("edit", r,
                       edit_user(store, r.ss, r.df, StrV(edit_name), edit_team, edit_cell,
                                 env.fault, env.local),
                       <<edit_name, edit_team, edit_cell>>, env)
    /\ UnchangedPure

(***************************************************************************)
(* The program: every script run a user can cause.                         *)
(***************************************************************************)
PersonNames == {"dana", "omer", "Dana"}

\* the radio options the user clicks here: absent and present.  The donated
\* option still reaches the form from a stored marker, and clicking it is
\* covered by SpecSession and SpecForm.
RadioInputs == {"ein", "yesh"}

Next ==
    \/ \E p \in PersonNames \cup {""}, rf \in LoadFaults : SelectPerson(StrV(p), rf)
    \/ \E item \in ItemKeys, option \in RadioInputs, rf \in LoadFaults :
          SetItem(item, option, rf)
    \/ \E notes \in NotesInputs, env \in SaveEnvs : ClickSave(notes, env)
    \/ \E rf \in LoadFaults : ClickReset(rf)
    \/ \E new_name \in NewNames, env \in AdminEnvs : AddUser(new_name, "b", "2", env)
    \/ \E name \in PersonNames, env \in AdminEnvs : RemoveUser(name, env)
    \/ \E name \in PersonNames, env \in AdminEnvs : EditUser(name, "c", "0", env)

Spec == Init /\ [][Next]_vars

(***************************************************************************)
(* Functions applied on their own: the program's state stays as it starts  *)
(* and pIn holds the argument, pOut the result.                            *)
(***************************************************************************)
IdleProgram ==
    /\ credentials = FALSE
    /\ original = [sheet |-> InitialTable, backupSheet |-> NoArtifact,
                   file |-> Artifact(InitialTable), backupFile |-> NoArtifact]
    /\ store = original
    /\ ss = InitSession
    /\ selectbox = StrV("")
    /\ run = NoRun
    /\ writes = 0

UnchangedProgram == UNCHANGED <<store, credentials, ss, selectbox, run, writes, original>>

\* raw cell values: missing, empty, numbers and texts
RawValues ==
    {NaN, PyNone, StrV(""), IntV("0"), FloatV("0.0"), IntV("1"), FloatV("1.0"),
     StrV("1"), StrV(Marker), IntV("2"), FloatV("2.5"), StrV("x"), StrV("0"),
     StrV("1.0")}

\* a DataFrame with one person and the two cells
OnePerson(helmet, vest) ==
    Table(<<NameCol, "helmet", "vest">>,
          << [c \in {NameCol, "helmet", "vest"} |->
                 CASE c = NameCol -> StrV("dana") [] c = "helmet" -> helmet
                   [] OTHER -> vest] >>)

Statuses(df, name) ==
    [item \in Range(get_all_items(df)) |-> get_person_item_status(df, name, item)]

InitNormalizer ==
    /\ IdleProgram
    /\ pIn \in [helmet : RawValues, vest : RawValues]
    /\ pOut = <<>>

\* get_person_item_status on every cell, and for a name the table lacks
ApplyNormalizer ==
    /\ pOut = <<>>
    /\ LET df == OnePerson(pIn.helmet, pIn.vest)
       IN  pOut' = [kind |-> "status",
                    status |-> Statuses(df, StrV("dana")),
                    nobody |-> Statuses(df, StrV("nobody"))]
    /\ UNCHANGED pIn
    /\ UnchangedProgram

\* the form shows the person, the radios stay as they come up, the row is
\* saved as save_verification writes it and read again from each backend
ApplyRoundTrip ==
    /\ pOut = <<>>
    /\ LET df == OnePerson(pIn.helmet, pIn.vest)
           loop == ItemLoop(InitSession, df, StrV("dana"))
           df2 == UpdatedDf(df, StrV("dana"), loop.item_statuses, "")
       IN  pOut' = [kind |-> "roundtrip",
                    status |-> Statuses(df, StrV("dana")),
                    written |-> df2.rows[1],
                    direct |-> Statuses(df2, StrV("dana")),
                    remote |-> Statuses(LoadRemote(StoreRemote(df2)), StrV("dana")),
                    local |-> Statuses(LoadLocal(StoreLocal(df2)), StrV("dana"))]
    /\ UNCHANGED pIn
    /\ UnchangedProgram

NextNormalizer == ApplyNormalizer \/ ApplyRoundTrip

SpecNormalizer == InitNormalizer /\ [][NextNormalizer]_vars

(***************************************************************************)
(* The Table Store and the user management called on their own, with the   *)
(* table load_data gives: any name, every item given the same option.      *)
(***************************************************************************)
\* save_verification(load_data().copy(), name, item_statuses, notes)
SaveCall(name, option, notes, env) ==
    /\ writes < MaxWrites
    /\ LET r == Script(store, ss, StrV(""), env.load)
           given == [item \in Range(get_all_items(r.df)) |-> STATUS_MAP(option)]
           sv == save_verification(store, r.ss, r.df, StrV(name), given, notes,
                                   env.fault, env.local)
       IN  /\ r.status = "ok"
           /\ ss' = r.ss
           /\ store' = sv.st
           /\ run' = [RunRecord("save", r, <<notes>>, sv.result)
                          EXCEPT !.name = StrV(name), !.item_statuses = given]
           /\ writes' = IF sv.result = "None" THEN writes ELSE writes + 1
    /\ UNCHANGED selectbox
    /\ UnchangedPure

\* ensure_backup_exists(client, spreadsheet) by a session on the remote backend
EnsureBackupCall(fault) ==
    /\ credentials
    /\ LET r == Script(store, ss, StrV(""), FALSE)
       IN  /\ r.status = "ok"
           /\ ss' = r.ss
           /\ store' = ensure_backup_exists(store, fault)
           /\ run' = RunRecord("backup", r, <<>>, "none")
    /\ UNCHANGED <<selectbox, writes>>
    /\ UnchangedPure

NextStore ==
    \/ \E name \in {"dana", "nobody"}, option \in Range(STATUS_OPTIONS),
          notes \in NotesInputs, env \in SaveEnvs : SaveCall(name, option, notes, env)
    \/ \E fault \in {"none", "backup_list", "backup_copy"} : EnsureBackupCall(fault)
    \/ \E new_name \in NewNames, env \in AdminEnvs : AddUser(new_name, "b", "2", env)
    \/ \E name \in {"dana"}, env \in AdminEnvs : RemoveUser(name, env)
    \/ \E name \in {"dana"}, env \in AdminEnvs : EditUser(name, "c", "0", env)

SpecStore == Init /\ [][NextStore]_vars

\* the verification form alone: the runs that write nothing
NextSession ==
    \/ \E p \in PersonNames \cup {""}, rf \in LoadFaults : SelectPerson(StrV(p), rf)
    \/ \E item \in ItemKeys, option \in Range(STATUS_OPTIONS), rf \in LoadFaults :
          SetItem(item, option, rf)
    \/ \E rf \in LoadFaults : ClickReset(rf)

SpecSession == Init /\ [][NextSession]_vars

(***************************************************************************)
(* The verification form with a record of what the click found: each run   *)
(* keeps, in args, the selectbox value and the radios it started from.     *)
(***************************************************************************)
\* the user picks another entry of the selectbox
ChangePerson(p, remoteFails) ==
    /\ p # selectbox
    /\ LET r == Script(store, ss, p, remoteFails)
       IN  /\ ss' = r.ss
           /\ selectbox' = r.selectbox
           /\ run' = RunRecord("change", r, <<selectbox, ss.items>>, "none")
    /\ UNCHANGED <<store, writes>>
    /\ UnchangedPure

\* a reset that leaves session_state.selected_name as it is
ResetFormKeepsName(remoteFails) ==
    /\ selectbox # StrV("")
    /\ LET r == Script(store, ss, selectbox, remoteFails)
           ss2 == [r.ss EXCEPT !.initialized = FALSE]
           r2 == Script(store, ss2, r.selectbox, remoteFails)
       IN  /\ r.status = "ok"
           /\ r.selectbox # StrV("")
           /\ ss' = r2.ss
           /\ selectbox' = r2.selectbox
           /\ run' = RunRecord("reset", r2, <<selectbox, ss.items>>, "none")
    /\ UNCHANGED <<store, writes>>
    /\ UnchangedPure

\* the reset button: session_state is cleared of the selection and the
\* script runs again
ResetForm(remoteFails) ==
    /\ selectbox # StrV("")
    /\ LET r == Script(store, ss, selectbox, remoteFails)
           ss2 == [r.ss EXCEPT !.initialized = FALSE, !.selected_name = PyNone]
           r2 == Script(store, ss2, r.selectbox, remoteFails)
       IN  /\ r.status = "ok"
           /\ r.selectbox # StrV("")
           /\ ss' = r2.ss
           /\ selectbox' = r2.selectbox
           /\ run' = RunRecord("reset", r2, <<selectbox, ss.items>>, "none")
    /\ UNCHANGED <<store, writes>>
    /\ UnchangedPure

NextForm ==
    \/ \E p \in PersonNames \cup {""}, rf \in LoadFaults : ChangePerson(StrV(p), rf)
    \/ \E item \in ItemKeys, option \in Range(STATUS_OPTIONS), rf \in LoadFaults :
          SetItem(item, option, rf)
    \/ \E rf \in LoadFaults : ResetForm(rf)

SpecForm == Init /\ [][NextForm]_vars

(***************************************************************************)
(* Two sessions on one table.  Session A is the session of the variables   *)
(* above; session B's script run is kept in pOut: its load (line 818) and  *)
(* its write (line 946) are separate steps, and A's save may fall between. *)
(***************************************************************************)
\* session B has no run in flight
BIdle == pOut = <<>>

\* B's run has loaded the table and rendered the form for name
BLoads(name, option, notes) ==
    /\ BIdle
    /\ LET r == Script(store, InitSession, StrV(name), FALSE)
       IN  /\ r.status = "ok"
           /\ r.selectbox = StrV(name)
           /\ pOut' = [kind |-> "loaded", ss |-> r.ss, df |-> r.df, name |-> r.selectbox,
                       item_statuses |->
                           [item \in Range(get_all_items(r.df)) |-> STATUS_MAP(option)],
                       notes |-> notes, found |-> EmptyTable, result |-> "none"]
    /\ UNCHANGED <<store, credentials, ss, selectbox, run, writes, original, pIn>>

\* B's run reaches save_verification with the DataFrame it loaded
BWrites(env) ==
    /\ ~BIdle
    /\ pOut.kind = "loaded"
    /\ LET sv == save_verification(store, pOut.ss, pOut.df, pOut.name,
                                   pOut.item_statuses, pOut.notes, env.fault, env.local)
       IN  /\ store' = sv.st
           /\ pOut' = [pOut EXCEPT !.kind = "written", !.result = sv.result,
                                   !.found = IF pOut.ss.use_google_sheets
                                             THEN store.sheet ELSE store.file.data]
    /\ UNCHANGED <<credentials, ss, selectbox, run, writes, original, pIn>>

NextRace ==
    \/ \E option \in {"ein", "yesh"}, env \in SaveEnvs : SaveCall("omer", option, "", env)
    \/ \E name \in {"dana", "omer"}, option \in Range(STATUS_OPTIONS),
          notes \in NotesInputs : BLoads(name, option, notes)
    \/ \E env \in SaveEnvs : BWrites(env)

SpecRace == Init /\ [][NextRace]_vars

(***************************************************************************)
(* The admin summaries as functions of the tables they are given.          *)
(***************************************************************************)
\* sorted(names): Python orders upper case before lower case
NameOrder == <<StrV("Dana"), StrV("dana"), StrV("omer")>>

Sorted(names) == SelectSeq(NameOrder, LAMBDA n : n \in names)

\* a normalisation that does not know the donation marker
DiffStatusNoMarker(val) ==
    IF isna(val) \/ PyEq(val, StrV("")) \/ PyEq(val, IntV("0")) THEN PyNone
    ELSE IF PyEq(val, IntV("1")) \/ PyEq(val, FloatV("1.0")) \/ PyStr(val) = "1"
         THEN IntV("1")
    ELSE PyNone

\* old_status / new_status of the diff
DiffStatus(val) ==
    IF isna(val) \/ PyEq(val, StrV("")) \/ PyEq(val, IntV("0")) THEN PyNone
    ELSE IF PyEq(val, IntV("1")) \/ PyEq(val, FloatV("1.0")) \/ PyStr(val) = "1"
         THEN IntV("1")
    ELSE IF PyStr(val) = Marker THEN StrV(Marker)
    ELSE PyNone

\* the diff of admin_summarize_changes for a loaded backup
admin_summarize_changes(df, backup_df) ==
    LET all_items == get_all_items(df)
        backup_items == get_all_items(backup_df)
        common_items == SelectSeq(all_items, LAMBDA item : item \in Range(backup_items))
        current_names == Names(df)
        backup_names == Names(backup_df)
        users == Sorted(current_names \cap backup_names)
        n == Len(common_items)
        pairs == [k \in 1..(Len(users) * n) |->
                     [name |-> users[((k - 1) \div n) + 1],
                      item |-> common_items[((k - 1) % n) + 1]]]
        old_status(q) == DiffStatus(RowGet(RowsNamed(backup_df, q.name)[1], q.item))
        new_status(q) == DiffStatus(RowGet(RowsNamed(df, q.name)[1], q.item))
        differing == SelectSeq(pairs, LAMBDA q : old_status(q) # new_status(q))
    IN  [added_users |-> current_names \ backup_names,
         removed_users |-> backup_names \ current_names,
         changes |-> [k \in DOMAIN differing |->
                         [shem |-> differing[k].name,
                          parit |-> differing[k].item,
                          makor |-> REVERSE_STATUS_MAP(old_status(differing[k])),
                          nochechi |-> REVERSE_STATUS_MAP(new_status(differing[k]))]]]

\* the tables the diff is tried on: two rows, a first name that may be
\* missing, a second that may repeat the first, and a vest column or none
DiffCells == {NaN, StrV(""), IntV("1"), StrV("1"), StrV(Marker), StrV("x")}

DiffTable(name1, name2, helmet1, helmet2, vest) ==
    LET cols == IF vest = PyNone THEN <<NameCol, TeamCol, "helmet">>
                ELSE <<NameCol, TeamCol, "helmet", "vest">>
        row(name, helmet) ==
            [c \in Range(cols) |->
                CASE c = NameCol -> name [] c = TeamCol -> StrV("a")
                  [] c = "helmet" -> helmet [] OTHER -> vest]
    IN  Table(cols, <<row(name1, helmet1), row(name2, helmet2)>>)

DiffTables(vests) ==
    {DiffTable(name1, name2, helmet1, helmet2, vest) :
        name1 \in {StrV("dana"), NaN}, name2 \in {StrV("dana"), StrV("omer")},
        helmet1 \in DiffCells, helmet2 \in {IntV("1"), StrV("")}, vest \in vests}

InitDiff ==
    /\ IdleProgram
    /\ pIn \in [df : DiffTables({PyNone, IntV("1")}),
                backup : DiffTables({PyNone, StrV(Marker)})]
    /\ pOut = <<>>

ApplyDiff ==
    /\ pOut = <<>>
    /\ pOut' = [kind |-> "diff", diff |-> admin_summarize_changes(pIn.df, pIn.backup)]
    /\ UNCHANGED pIn
    /\ UnchangedProgram

NextDiff == ApplyDiff

SpecDiff == InitDiff /\ [][NextDiff]_vars

\* round(k / n * 100, 1), in tenths of a percent
RoundedPercent(k, n) == (2000 * k + n) \div (2 * n)

\* the branch of the tally a cell falls in
TallyBranch(val) ==
    IF isna(val) \/ PyEq(val, StrV("")) \/ PyEq(val, IntV("0")) THEN "ein"
    ELSE IF PyEq(val, IntV("1")) \/ PyEq(val, FloatV("1.0")) \/ PyStr(val) = "1"
         THEN "yesh"
    ELSE IF PyStr(val) = Marker THEN "truma"
    ELSE "ein"

\* the per-item summary rows of admin_summarize_table; the percentage is
\* kept in tenths
per_item_summary(df) ==
    LET all_items == get_all_items(df)
        total_people == Cardinality(Names(df))
        count(item, branch) ==
            Cardinality({i \in DOMAIN df.rows : TallyBranch(RowGet(df.rows[i], item)) = branch})
    IN  [k \in DOMAIN all_items |->
            LET item == all_items[k]
                total_have == count(item, "yesh") + count(item, "truma")
            IN  [parit |-> item,
                 yesh |-> count(item, "yesh"),
                 truma |-> count(item, "truma"),
                 ein |-> count(item, "ein"),
                 total_have |-> total_have,
                 total_people |-> total_people,
                 percent |-> IF total_people > 0
                             THEN RoundedPercent(total_have, total_people)
                             ELSE 0]]

\* the tables the tally is tried on: three rows, names that repeat or are
\* missing
TallyCells == {NaN, IntV("1"), StrV(Marker), StrV("x")}

TallyTables ==
    {Table(<<NameCol, "helmet">>,
           [i \in 1..3 |-> [c \in {NameCol, "helmet"} |->
                               IF c = NameCol THEN names[i] ELSE helmets[i]]]) :
        names \in [1..3 -> {StrV("dana"), StrV("omer"), NaN}],
        helmets \in [1..3 -> TallyCells]}

InitTally ==
    /\ IdleProgram
    /\ pIn \in TallyTables
    /\ pOut = <<>>

ApplyTally ==
    /\ pOut = <<>>
    /\ pOut' = [kind |-> "tally", rows |-> per_item_summary(pIn)]
    /\ UNCHANGED pIn
    /\ UnchangedProgram

NextTally == ApplyTally

SpecTally == InitTally /\ [][NextTally]_vars

(***************************************************************************)
(* Claims.                                                                 *)
(***************************************************************************)
\* the normalized state the loaded table stores for a person's item: that
\* of the first row with the person's name
StoredState(df, name, item) == CellStatus(df.rows[FirstIdx(df, name)][item])

Editing == run.status = "ok" /\ run.name # StrV("")

\* C3: for the selected person and whatever the radios say, missing_required
\* holds exactly the items whose stored state is not Absent and whose
\* working state is Absent.
C3_RegressionSetExact ==
    Editing =>
        /\ selectbox = run.name
        /\ Range(run.missing_required) =
              { item \in Range(get_all_items(run.df)) :
                    /\ StoredState(run.df, run.name, item) # PyNone
                    /\ STATUS_MAP(ss.items[item]) = PyNone }
        /\ \A item \in Range(run.missing_required) :
              /\ StoredState(run.df, run.name, item) \in {IntV("1"), StrV(Marker)}
              /\ run.item_statuses[item] = PyNone

\* dana's registered helmet is marked missing, omer's donated helmet too,
\* and an item that was never registered is left at none
C3_Witness ==
    /\ Editing
    /\ run.name = StrV("omer")
    /\ run.missing_required = <<"helmet">>
    /\ StoredState(run.df, run.name, "helmet") = StrV(Marker)
    /\ StoredState(run.df, run.name, "vest") = PyNone
    /\ ss.items["vest"] = "ein"

\* the rule of the Value Normalizer, by the kind of the raw value
Absent == PyNone
Present == IntV("1")
Donated == StrV(Marker)

RuleState(v) ==
    CASE v.t \in {"nan", "none"} -> Absent
      [] v.t = "str" /\ v.s = "" -> Absent
      [] v.t \in {"int", "float"} /\ v.s \in {"0", "0.0"} -> Absent
      [] v.t \in {"int", "float"} /\ v.s \in {"1", "1.0"} -> Present
      [] v.t = "str" /\ v.s = "1" -> Present
      [] v.t = "str" /\ v.s = Marker -> Donated
      [] OTHER -> Absent

\* C1: get_person_item_status returns one of Absent, Present and Donated, by
\* the ordered rule: missing, empty or zero is Absent, 1 or "1" is Present,
\* the marker is Donated, anything else (and a person the table lacks) Absent.
C1_NormalizerRule ==
    (pOut # <<>> /\ pOut.kind = "status") =>
        /\ \A item \in {"helmet", "vest"} :
              /\ pOut.status[item] \in {Absent, Present, Donated}
              /\ pOut.status[item] = RuleState(pIn[item])
              /\ pOut.nobody[item] = Absent

\* a number that is neither 0 nor 1 and a text nobody defined both read Absent
\* beside a float 1.0 that reads Present
C1_Witness ==
    /\ pOut # <<>>
    /\ pOut.kind = "status"
    /\ pIn.helmet = FloatV("2.5")
    /\ pIn.vest = StrV("1")
    /\ pOut.status["helmet"] = Absent
    /\ pOut.status["vest"] = Present

\* the canonical encoding of a state
Encoding(state) ==
    CASE state = Absent -> StrV("") [] state = Present -> IntV("1")
      [] OTHER -> StrV(Marker)

\* C2: writing the canonical encoding of the normalized state and normalizing
\* what was written (as written, and as each backend gives it back) yields
\* the same state.
C2_RoundTrip ==
    (pOut # <<>> /\ pOut.kind = "roundtrip") =>
        \A item \in {"helmet", "vest"} :
            /\ pOut.written[item] = Encoding(pOut.status[item])
            /\ pOut.direct[item] = pOut.status[item]
            /\ pOut.remote[item] = pOut.status[item]
            /\ pOut.local[item] = pOut.status[item]

\* a text "1" is written back as the number 1, a stray text as the empty cell
C2_Witness ==
    /\ pOut # <<>>
    /\ pOut.kind = "roundtrip"
    /\ pIn.helmet = StrV("1")
    /\ pIn.vest = StrV("x")
    /\ pOut.written["helmet"] = IntV("1")
    /\ pOut.written["vest"] = StrV("")
    /\ pOut.local["helmet"] = Present
    /\ pOut.remote["vest"] = Absent

\* C5: once a backup exists (worksheet or file), no save, no ensureBackup call
\* and no user-management write changes it.
C5_BackupWriteOnce ==
    [][ /\ store.backupSheet.exists => store'.backupSheet = store.backupSheet
        /\ store.backupFile.exists => store'.backupFile = store.backupFile ]_vars

\* a save on a table an earlier save had already changed and backed up: the
\* backup still holds the first table, the main sheet a third one
C5_Witness ==
    /\ run.kind = "save"
    /\ run.result = "main_sheet"
    /\ HasCol(run.df, NotesCol)
    /\ store.backupSheet = Artifact(BackupCopy(original.sheet))
    /\ store.sheet # EarlierSave(original, credentials).sheet
    /\ LoadRemote(store.sheet) # LoadRemote(store.backupSheet.data)

\* C10: save_verification with a name no row carries returns None and leaves
\* the main table and the backup of both backends as they were.
C10_NotFoundNoOp ==
    [][ (run'.kind = "save" /\ RowsNamed(run'.df, run'.name) = <<>>) =>
            /\ run'.result = "None"
            /\ store' = store ]_vars

C10_Witness ==
    /\ run.kind = "save"
    /\ run.name = StrV("nobody")
    /\ run.result = "None"
    /\ ss.use_google_sheets
    /\ ~store.backupSheet.exists
    /\ store = original

\* the table held by the backend session s writes to
Stored(st, s) == IF s.use_google_sheets /\ s.gs_client THEN st.sheet ELSE st.file.data

\* what a stored table shows: the text of every cell, whether the cell holds
\* it as a number or as text
Contents(t) == MapCells(t, BackupCopyCell)

\* the rows session s finds stored in st
StoredRows(st, s) == Contents(Stored(st, s)).rows

\* the row add-user appends, as stored: the given fields, every other cell blank
AddedRow(cols, args) ==
    [c \in Range(cols) |->
        CASE c = NameCol -> StrV(args[1]) [] c = TeamCol -> StrV(args[2])
          [] c = CellCol -> StrV(args[3]) [] OTHER -> Blank]

\* C7 as stated: add-user fails iff the name is empty or already the name of
\* a row; on failure nothing is persisted and the row count is unchanged; on
\* success exactly one row is appended, its items empty, its fields as given.
C7_FailsIffEmptyOrPresent ==
    [][ run'.kind = "add" =>
          LET failed == run'.result # "added"
              name == run'.args[1]
          IN  /\ failed <=> (name = "" \/ StrV(name) \in Names(run'.df))
              /\ failed => /\ store' = store
                           /\ Len(StoredRows(store', ss')) = Len(StoredRows(store, ss'))
              /\ ~failed => StoredRows(store', ss') =
                                Append(StoredRows(store, ss'),
                                       AddedRow(Stored(store, ss').cols, run'.args)) ]_vars

\* C7 as amended: add-user is rejected iff the name is empty or already the
\* name of a row (exact, case-sensitive), and then nothing is persisted and
\* the row count is unchanged; a name that passes is appended as exactly one
\* row, its items empty and its fields as given, when the full-table write
\* completes; when that write fails the add fails too, and no row is added.
C7_RejectedIffEmptyOrPresent ==
    [][ run'.kind = "add" =>
          LET rejected == run'.result \in {"error_empty", "error_exists"}
              name == run'.args[1]
          IN  /\ run'.result \in {"error_empty", "error_exists", "added", "save_failed"}
              /\ rejected <=> (name = "" \/ StrV(name) \in Names(run'.df))
              /\ run'.result = "error_empty" <=> name = ""
              /\ rejected => /\ store' = store
                             /\ Len(StoredRows(store', ss')) = Len(StoredRows(store, ss'))
              /\ run'.result = "added" =>
                    /\ Stored(store', ss').cols = Stored(store, ss').cols
                    /\ StoredRows(store', ss') =
                          Append(StoredRows(store, ss'),
                                 AddedRow(Stored(store, ss').cols, run'.args))
              /\ run'.result = "save_failed" =>
                    StoredRows(store', ss') \in {StoredRows(store, ss'), <<>>} ]_vars

\* "Dana" is added beside "dana": the match is case-sensitive
C7_Witness ==
    /\ run.kind = "add"
    /\ run.result = "added"
    /\ run.args[1] = "Dana"
    /\ StrV("dana") \in Names(run.df)
    /\ Len(Stored(store, ss).rows) = Len(run.df.rows) + 1
    /\ Stored(store, ss).rows[Len(Stored(store, ss).rows)]["helmet"] = Blank

\* a save click that a store accepted, and the table that store now holds
SaveSucceeded == run.kind = "save" /\ run.result \in {"main_sheet", "DATA_FILE"}
SavedTable == IF run.result = "main_sheet" THEN store.sheet ELSE store.file.data
AsStored(v) == IF run.result = "main_sheet" THEN StoreRemoteCell(v) ELSE StoreLocalCell(v)

\* the cell of the loaded table as the store would hold it; a column the
\* loaded table lacks is blank
LoadedCell(i, c) == IF HasCol(run.df, c) THEN AsStored(run.df.rows[i][c]) ELSE Blank

\* the stored table the claim expects after the save of run: the loaded
\* table, the first row of the person with every cell of the item set taken
\* from the radios and the notes cell from the notes entered
ExpectedSave(items) ==
    LET idx == FirstIdx(run.df, run.name)
        notes == run.args[1]
        cols == IF notes = "" \/ HasCol(run.df, NotesCol) THEN run.df.cols
                ELSE Append(run.df.cols, NotesCol)
    IN  Table(cols,
              [i \in DOMAIN run.df.rows |->
                  [c \in Range(cols) |->
                      CASE i = idx /\ c = NotesCol /\ notes # "" -> AsStored(StrV(notes))
                        [] i = idx /\ c \in items ->
                             AsStored(Encoding(RuleState(run.item_statuses[c])))
                        [] OTHER -> LoadedCell(i, c)]])

AdminWrote == run.kind \in {"add", "remove", "edit"}
              /\ run.result \in {"added", "removed", "edited"}

\* C6: a backup that exists (and whose creation did not fail half way) holds
\* the table as it was before the first write of any kind, and no write of
\* user management reaches the main table while no backup exists.
C6_BackupIsTableBeforeFirstWrite ==
    /\ (store.backupSheet.exists /\ store.backupSheet.data # EmptyTable)
          => store.backupSheet.data = BackupCopy(original.sheet)
    /\ store.backupFile.exists => store.backupFile.data = original.file.data
    /\ AdminWrote => IF ss.use_google_sheets /\ ss.gs_client
                     THEN store.backupSheet.exists
                     ELSE store.backupFile.exists

\* the first row of the person in a table
FirstRow(df, name) == df.rows[FirstIdx(df, name)]

\* the (person, item) pairs the claim expects a change record for
ExpectedChanges(df, backup_df) ==
    {<<name, item>> \in
        (Names(df) \cap Names(backup_df))
        \X (Range(get_all_items(df)) \cap Range(get_all_items(backup_df))) :
        RuleState(FirstRow(backup_df, name)[item]) # RuleState(FirstRow(df, name)[item])}

\* C8: the diff of a table against an identical backup has no added users,
\* no removed users and no change records; in general there is one change
\* record for exactly the people in both tables and the items in both whose
\* normalized backup state differs from the normalized current state.
C8_DiffAgainstBackup ==
    pOut # <<>> /\ pOut.kind = "diff" =>
        LET d == pOut.diff
        IN  /\ pIn.df = pIn.backup =>
                  d.added_users = {} /\ d.removed_users = {} /\ d.changes = <<>>
            /\ {<<d.changes[k].shem, d.changes[k].parit>> : k \in DOMAIN d.changes}
                  = ExpectedChanges(pIn.df, pIn.backup)
            /\ Len(d.changes) = Cardinality(ExpectedChanges(pIn.df, pIn.backup))

\* dana's helmet is the text "1" in the backup and the number 1 now, which
\* is no change of state; the vest column changed from the marker to 1 for
\* dana and for omer
C8_Witness ==
    /\ pOut # <<>> /\ pOut.kind = "diff"
    /\ pIn.backup = DiffTable(StrV("dana"), StrV("omer"), StrV("1"), StrV(""), StrV(Marker))
    /\ pIn.df = DiffTable(StrV("dana"), StrV("omer"), IntV("1"), StrV(""), IntV("1"))
    /\ Len(pOut.diff.changes) = 2
    /\ pOut.diff.changes[1] = [shem |-> StrV("dana"), parit |-> "vest",
                               makor |-> "truma", nochechi |-> "yesh"]

\* C9: in the per-item tally the coverage is 0 when there are no people and
\* otherwise (Present + Donated) / totalPeople x 100 rounded to one decimal;
\* the three counts sum to totalPeople and the coverage lies between 0 and
\* 100, also for tables with repeated or missing names.
C9_TallyCoverage ==
    pOut # <<>> /\ pOut.kind = "tally" =>
        \A k \in DOMAIN pOut.rows :
            LET r == pOut.rows[k]
            IN  /\ r.total_people = 0 => r.percent = 0
                /\ r.total_people > 0 =>
                      r.percent = RoundedPercent(r.yesh + r.truma, r.total_people)
                /\ r.yesh + r.truma + r.ein = r.total_people
                /\ r.percent >= 0 /\ r.percent <= 1000

\* the DataFrame the save of run persists
SavedDf == UpdatedDf(run.df, run.name, run.item_statuses, run.args[1])

\* C11: a save whose persistence step cannot complete never raises out of
\* save_verification: it returns a failure value, and it returns a success
\* label only when the write completed on the location the label names.
C11_SaveNeverRaises ==
    run.kind = "save" =>
        /\ run.result \in {"None", "main_sheet", "DATA_FILE"}
        /\ run.result = "main_sheet" =>
              Contents(store.sheet) = Contents(StoreRemote(SavedDf))
        /\ run.result = "DATA_FILE" =>
              /\ store.file.exists
              /\ Contents(store.file.data) = Contents(StoreLocal(SavedDf))

\* every radio of the form shows the normalized state the loaded table
\* stores for the person
ShowsStored(name) ==
    \A item \in Range(get_all_items(run.df)) :
        STATUS_MAP(ss.items[item]) = RuleState(FirstRow(run.df, name)[item])

\* C12: when the selected person changes to p, from no selection or from
\* another person, with or without edits, every item's working state right
\* after the change is the normalized state stored for p.
C12_ChangeReinitializes ==
    (run.kind = "change" /\ run.status = "ok" /\ selectbox # StrV("")) =>
        /\ run.name = selectbox
        /\ ShowsStored(selectbox)

\* dana's vest had been set to present and not saved when omer was picked:
\* omer's vest shows absent, as stored
C12_Witness ==
    /\ run.kind = "change" /\ run.status = "ok"
    /\ run.args[1] = StrV("dana") /\ run.args[2]["vest"] = "yesh"
    /\ selectbox = StrV("omer")
    /\ ss.items["vest"] = "ein" /\ ss.items["helmet"] = "truma"

\* C13 as stated: after Reset and its rerun no person is selected and no
\* item holds a working value.
C13_ResetLeavesNoSelection ==
    run.kind = "reset" =>
        /\ selectbox = StrV("")
        /\ ss.selected_name = PyNone
        /\ \A item \in ItemKeys : ss.items[item] = "unset"

\* C13 as amended: Reset discards the edits of every item; after the reset
\* and its rerun the person who was selected is selected still, and every
\* item's working state is the normalized state stored for that person.
C13_ResetReinitializes ==
    run.kind = "reset" =>
        /\ selectbox = run.args[1]
        /\ selectbox # StrV("")
        /\ ss.selected_name = selectbox
        /\ ShowsStored(selectbox)

\* dana's vest had been set to present when Reset was clicked: dana is
\* selected still and the vest shows absent, as stored
C13_Witness ==
    /\ run.kind = "reset"
    /\ run.args[1] = StrV("dana") /\ run.args[2]["vest"] = "yesh"
    /\ selectbox = StrV("dana")
    /\ ss.items["vest"] = "ein"

\* the table B's run persists, and the stored form of a DataFrame at the
\* location of a label
BSavedDf == UpdatedDf(pOut.df, pOut.name, pOut.item_statuses, pOut.notes)
StoredAs(label, df) == IF label = "main_sheet" THEN StoreRemote(df) ELSE StoreLocal(df)
TableAt(label, st) == IF label = "main_sheet" THEN st.sheet ELSE st.file.data

\* A's save landed after B's load and before B's write: both loaded the same
\* table, and B's write found the table A had written
ALandedBetween(found) ==
    /\ run.kind = "save" /\ run.result \in {"main_sheet", "DATA_FILE"}
    /\ run.df = pOut.df
    /\ Contents(found) = Contents(StoredAs(run.result, SavedDf))

\* C14: a save is a load followed by a full-table overwrite; when A's
\* overwrite lands between B's load and B's overwrite the stored table ends
\* as B's in-memory table, and the row A saved for another person is again
\* as B loaded it: the last full-table write wins.
C14_LastWriteWins ==
    [][ (~BIdle /\ pOut.kind = "loaded" /\ pOut'.kind = "written"
         /\ pOut'.result \in {"main_sheet", "DATA_FILE"}) =>
          LET label == pOut'.result
              landed == Contents(TableAt(label, store'))
          IN  /\ landed = Contents(StoredAs(label, BSavedDf))
              /\ (ALandedBetween(pOut'.found) /\ label = run.result
                  /\ run.name # pOut.name) =>
                    LET idx == FirstIdx(run.df, run.name)
                    IN  \A c \in Range(run.df.cols) :
                           landed.rows[idx][c] =
                               Contents(StoredAs(label, pOut.df)).rows[idx][c] ]_vars

\* A marked omer's donated helmet absent and saved; B, who had loaded before
\* that to edit dana, saved after it: omer's helmet is the marker again
C14_Witness ==
    /\ ~BIdle /\ pOut.kind = "written" /\ pOut.result = "main_sheet"
    /\ pOut.name = StrV("dana")
    /\ run.name = StrV("omer") /\ run.result = "main_sheet"
    /\ ALandedBetween(pOut.found)
    /\ pOut.found.rows[2]["helmet"] = Blank
    /\ store.sheet.rows[2]["helmet"] = StrV(Marker)

\* the backup of the backend a label names
BackupAt(label, st) == IF label = "main_sheet" THEN st.backupSheet ELSE st.backupFile

\* a save that succeeded on a backend that had no backup
FirstSaveStep ==
    /\ run'.kind = "save"
    /\ run'.result \in {"main_sheet", "DATA_FILE"}
    /\ ~BackupAt(run'.result, store).exists

\* C15 as stated: a verification save performed while no backup exists
\* creates the backup from the stored table before the main table is
\* overwritten, on both backends: after the save the backup holds the
\* pre-save values.
C15_BackupBeforeOverwrite ==
    [][ FirstSaveStep =>
          /\ BackupAt(run'.result, store').exists
          /\ Contents(BackupAt(run'.result, store').data)
                = Contents(TableAt(run'.result, store)) ]_vars

\* C15 as amended: the backup such a save creates is made from the stored
\* table before the main table is overwritten and holds the pre-save values;
\* on the workbook the save does not go on without it, while on the sheet a
\* failed backup step is only warned about, the overwrite follows, and the
\* save leaves no backup, or an empty backup sheet.
C15_BackupBeforeOverwriteUnlessItFails ==
    [][ FirstSaveStep =>
          /\ run'.result = "DATA_FILE" => store'.backupFile = Artifact(store.file.data)
          /\ run'.result = "main_sheet" =>
                store'.backupSheet \in {Artifact(BackupCopy(store.sheet)),
                                        Artifact(EmptyTable), NoArtifact} ]_vars

\* the first save marked dana's helmet absent: the backup sheet is the
\* table as it was, with the helmet, and the main sheet has the empty cell
C15_Witness ==
    /\ run.kind = "save" /\ run.result = "main_sheet" /\ run.name = StrV("dana")
    /\ store.backupSheet = Artifact(BackupCopy(original.sheet))
    /\ store.backupSheet.data.rows[1]["helmet"] = StrV("1")
    /\ store.sheet.rows[1]["helmet"] = Blank

\* C16: the notes column is metadata and never an item: once a save with
\* notes has created it, the item set of every later load is what it was
\* before, and a later save with empty notes leaves the stored notes of the
\* person as they were.
C16_NotesIsMetadata ==
    /\ run.status = "ok" => NotesCol \notin Range(get_all_items(run.df))
    /\ (SaveSucceeded /\ run.args[1] = "" /\ HasCol(run.df, NotesCol)) =>
          LET idx == FirstIdx(run.df, run.name)
          IN  Contents(SavedTable).rows[idx][NotesCol]
                 = BackupCopyCell(AsStored(run.df.rows[idx][NotesCol]))

\* C17: whenever save_verification returns a success label for a person,
\* the table the next load_data() of the session returns has, for every
\* item, the normalized state that was saved for the person, also when
\* the remote write failed and the save went to the local file.
C17_ReadYourWrites ==
    SaveSucceeded =>
        LET next == load_data(store, credentials, FALSE)
        IN  /\ next.ok
            /\ \A item \in DOMAIN run.item_statuses :
                  /\ HasCol(next.df, NameCol) /\ HasCol(next.df, item)
                  /\ get_person_item_status(next.df, run.name, item)
                        = run.item_statuses[item]

====
